---- MODULE Spec2Model ----
(***************************************************************************)
(* A model of the smart-rss pipeline: the concurrent feed fetch (rss.ts:   *)
(* fetchFeed, fetchAllFeeds), the categorizer (categorize.ts:              *)
(* categorizeItems) and the sequential summarization with retries          *)
(* (summarize.ts: summarizeCategory, summarizeAllCategories).              *)
(*                                                                         *)
(* Optional values (Date | null, string | undefined) are sequences of      *)
(* length 0 or 1: Null is <<>>, a present value v is <<v>>.                *)
(***************************************************************************)
EXTENDS Integers, Sequences, FiniteSets, TLC

VARIABLES
    \* ---- fetch stage (rss.ts) ----
    feeds,          \* the FeedInfo list passed to fetchAllFeeds
    dateFilter,     \* the DateFilter passed to fetchAllFeeds
    hasProgress,    \* whether an onProgress callback was passed
    fpc,            \* position of fetchAllFeeds: "idle", "running", "done"
    tpc,            \* per task: "awaitFetch", "awaitText", "fulfilled", "rejected"
    timer,          \* per task: the abort timer: "unset", "armed", "cleared"
    outcome,        \* per task: what happened to its retrieval
    raised,         \* per task: whether fetchFeed raised past its boundary
    items,          \* per task: the sequence fetchFeed returned
    logged,         \* per task: the diagnostic fetchFeed wrote
    progressLog,    \* the (completed, total) arguments of onProgress, in call order
    completion,     \* the task indices in the order their fetchFeed completed
    allItems,       \* the result of fetchAllFeeds
    \* ---- categorizer (categorize.ts) ----
    cinput,         \* the items passed to categorizeItems
    cpc,            \* position of categorizeItems: "idle", "grouping", "sorting", "done"
    ci,             \* how many items the grouping loop has handled
    ck,             \* how many categories the sorting loop has handled
    categorized,    \* the object under construction: its entries, in key order
    \* ---- summarization (summarize.ts) ----
    groups,         \* the CategorizedItems passed to summarizeAllCategories
    sHasProgress,   \* whether an onProgress callback was passed
    spc,            \* "idle", "loop", "awaitCreate", "sleeping", "done", "thrown"
    si,             \* the loop variable i of summarizeAllCategories
    attempt,        \* the loop variable attempt of summarizeCategory
    prompt,         \* the prompt built for the category being summarized
    summaries,      \* the CategorySummary records pushed so far
    trace,          \* what the run did, in order: progress calls, external
                    \* calls and their results, sleeps, pushed records
    \* ---- one pass of the item loop of fetchFeed (rss.ts) ----
    parsedItem,     \* the ParsedItem the loop is looking at
    itemFilter,     \* the DateFilter in force
    lpc,            \* "idle", "atItem", "next"
    pushed          \* the FeedItems the pass pushed

fetchVars == <<feeds, dateFilter, hasProgress, fpc, tpc, timer, outcome, raised,
               items, logged, progressLog, completion, allItems>>

catVars == <<cinput, cpc, ci, ck, categorized>>

enrichVars == <<groups, sHasProgress, spc, si, attempt, prompt, summaries, trace>>

loopVars == <<parsedItem, itemFilter, lpc, pushed>>

vars == <<fetchVars, catVars, enrichVars, loopVars>>

notFetch == <<catVars, enrichVars, loopVars>>
notCat == <<fetchVars, enrichVars, loopVars>>
notEnrich == <<fetchVars, catVars, loopVars>>
notLoop == <<fetchVars, catVars, enrichVars>>

\* ------------------------------------------------------------------ bounds
MaxFeeds == 2
MaxItems == 3
MaxCats == 2

\* ------------------------------------------------------------- optionals
Null == <<>>
Some(v) == <<v>>
\* JavaScript truthiness of an optional string: undefined and "" are falsy.
Truthy(s) == s # Null /\ s # Some("")
\* a || b on optional strings
OrElse(a, b) == IF Truthy(a) THEN a ELSE b

\* --------------------------------------------------------------- inputs
\* The subscription list the feeds are taken from (opml.ts FeedInfo).
Subscriptions ==
    <<[url |-> "https://a.example/feed", title |-> "A", category |-> "Tech"],
      [url |-> "https://b.example/rss", title |-> "B", category |-> "News"],
      [url |-> "https://c.example/atom", title |-> "C", category |-> "Tech"],
      [url |-> "https://a.example/feed", title |-> "A", category |-> "Tech"]>>

FeedLists == { SubSeq(Subscriptions, 1, n) : n \in 0..MaxFeeds }

\* DateFilter values: since and until are optional timestamps.
DateFilters == [since : {Null, Some(2)}, until : {Null, Some(2)}]

\* A ParsedItem of the feed parser; every field is an optional string.
Entry(title, link, pubDate, published, updated, date_published) ==
    [title |-> title, link |-> link, description |-> Null, content |-> Null,
     pubDate |-> pubDate, published |-> published, updated |-> updated,
     date_published |-> date_published]

\* What response.text() can deliver.  Two texts are not feed documents.
Contents == {"<malformed>", "<poison>", "empty", "rss", "atom"}

\* feedsmith's parseFeed: absent on a malformed document, a throw on another,
\* otherwise {feed: {title, items}}.
ParseFeed(content) ==
    CASE content = "<malformed>" -> [threw |-> FALSE, result |-> Null]
      [] content = "<poison>" -> [threw |-> TRUE, result |-> Null]
      [] content = "empty" ->
            [threw |-> FALSE,
             result |-> Some([title |-> Some("Empty"), items |-> Some(<<>>)])]
      [] content = "rss" ->
            [threw |-> FALSE,
             result |-> Some([title |-> Some("Alpha"), items |-> Some(<<
                Entry(Some("a1"), Some("l1"), Some("T1"), Null, Null, Null),
                Entry(Null, Some("l2"), Null, Some("T3"), Null, Null),
                Entry(Some("a3"), Null, Some(""), Null, Some("T2"), Null)>>)])]
      [] OTHER ->
            [threw |-> FALSE,
             result |-> Some([title |-> Null, items |-> Some(<<
                Entry(Some("b1"), Some("m1"), Some("garbage"), Some("T2"), Null, Null),
                Entry(Some("b2"), Some("m2"), Null, Null, Null, Null),
                Entry(Some("b3"), Some("m3"), Null, Null, Null, Some("T0"))>>)])]

\* new Date(dateStr).getTime(): Null stands for NaN.
DateGetTime(dateStr) ==
    CASE dateStr = "T0" -> Some(0)
      [] dateStr = "T1" -> Some(1)
      [] dateStr = "T2" -> Some(2)
      [] dateStr = "T3" -> Some(3)
      [] OTHER -> Null

\* ------------------------------------------------------------ fetchFeed
parseDate(dateStr) ==
    IF ~Truthy(dateStr) THEN Null ELSE DateGetTime(dateStr[1])

\* A window whose lower bound is exclusive.
isWithinDateRangeExclusive(pubDate, filter) ==
    IF pubDate = Null THEN TRUE
    ELSE IF filter.since # Null /\ pubDate[1] <= filter.since[1] THEN FALSE
    ELSE IF filter.until # Null /\ pubDate[1] > filter.until[1] THEN FALSE
    ELSE TRUE

isWithinDateRange(pubDate, filter) ==
    IF pubDate = Null THEN TRUE
    ELSE IF filter.since # Null /\ pubDate[1] < filter.since[1] THEN FALSE
    ELSE IF filter.until # Null /\ pubDate[1] > filter.until[1] THEN FALSE
    ELSE TRUE

extractItems(result) ==
    IF result = Null THEN <<>>
    ELSE IF result[1].items = Null THEN <<>> ELSE result[1].items[1]

extractTitle(result) ==
    IF result = Null THEN ""
    ELSE IF Truthy(result[1].title) THEN result[1].title[1] ELSE ""

\* The date string an entry offers: item.pubDate || item.published || ...
entryDateStr(item) ==
    OrElse(item.pubDate, OrElse(item.published, OrElse(item.updated, item.date_published)))

\* One FeedItem pushed by the loop of fetchFeed.
makeItem(item, pubDate, feedTitle, feedInfo) ==
    [title |-> IF Truthy(item.title) THEN item.title[1] ELSE "Untitled",
     link |-> IF Truthy(item.link) THEN item.link[1] ELSE "",
     description |-> LET d == OrElse(item.description, item.content)
                     IN IF Truthy(d) THEN d[1] ELSE "",
     pubDate |-> pubDate,
     feedTitle |-> IF feedTitle # "" THEN feedTitle ELSE feedInfo.title,
     category |-> feedInfo.category]

RECURSIVE buildItems(_, _, _, _)
buildItems(feedItems, feedTitle, feedInfo, filter) ==
    IF feedItems = <<>> THEN <<>>
    ELSE LET item == Head(feedItems)
             pubDate == parseDate(entryDateStr(item))
             rest == buildItems(Tail(feedItems), feedTitle, feedInfo, filter)
         IN IF ~isWithinDateRange(pubDate, filter) THEN rest
            ELSE <<makeItem(item, pubDate, feedTitle, feedInfo)>> \o rest

\* ---- one pass of the loop `for (const item of feedItems)` of fetchFeed ----
\* What a date field of a parsed entry can hold: absent, empty, a string
\* new Date() cannot read, or a readable date.
DateStrings == {Null, Some(""), Some("garbage"), Some("T1"), Some("T2"), Some("T3")}

ParsedItems ==
    { Entry(Some("e"), Some("le"), p, q, u, d) :
        p \in DateStrings, q \in DateStrings, u \in DateStrings, d \in DateStrings }

LoopStart == lpc = "atItem" /\ pushed = <<>>

LoopInit ==
    /\ parsedItem \in ParsedItems
    /\ itemFilter \in DateFilters
    /\ LoopStart

LoopIdle ==
    /\ parsedItem = Entry(Null, Null, Null, Null, Null, Null)
    /\ itemFilter = [since |-> Null, until |-> Null]
    /\ lpc = "idle" /\ pushed = <<>>

\* The loop body: read the date, test the window, push or continue.
LoopBody ==
    /\ lpc = "atItem"
    /\ pushed' = buildItems(<<parsedItem>>, "Feed", Subscriptions[1], itemFilter)
    /\ lpc' = "next"
    /\ UNCHANGED <<parsedItem, itemFilter>>
    /\ UNCHANGED notLoop

LoopNext == LoopBody

\* What a retrieval can run into.  "timeout": the abort timer fired while the
\* request was pending; "network": fetch rejected; "http": a non-2xx response;
\* "body": response.text() rejected; "content": the body arrived.
Retrievals ==
    [kind : {"timeout", "network", "http", "body"}, content : {""}]
        \cup [kind : {"content"}, content : Contents]

\* The try block of fetchFeed: an exception (exc) or a returned sequence.
fetchFeedTry(feedInfo, filter, ev) ==
    CASE ev.kind = "timeout" ->
            [exc |-> Some("AbortError"), ret |-> <<>>, log |-> Null, outcome |-> "timeout"]
      [] ev.kind = "network" ->
            [exc |-> Some("TypeError"), ret |-> <<>>, log |-> Null, outcome |-> "network"]
      [] ev.kind = "http" ->
            [exc |-> Null, ret |-> <<>>, log |-> Some("Failed to fetch: HTTP"),
             outcome |-> "http"]
      [] ev.kind = "body" ->
            [exc |-> Some("Error"), ret |-> <<>>, log |-> Null, outcome |-> "body"]
      [] OTHER ->
            LET parsed == ParseFeed(ev.content)
            IN IF parsed.threw
               THEN [exc |-> Some("Error"), ret |-> <<>>, log |-> Null,
                     outcome |-> "parseThrew"]
               ELSE IF parsed.result = Null
               THEN [exc |-> Null, ret |-> <<>>, log |-> Some("Failed to parse feed"),
                     outcome |-> "parseAbsent"]
               ELSE [exc |-> Null,
                     ret |-> buildItems(extractItems(parsed.result),
                                        extractTitle(parsed.result), feedInfo, filter),
                     log |-> Null, outcome |-> "ok"]

\* A catch block that swallows only the timeout and rethrows the rest.
fetchFeedCatchRethrows(exc) ==
    IF exc = "AbortError"
    THEN [raised |-> FALSE, items |-> <<>>, log |-> Some("Timeout fetching")]
    ELSE [raised |-> TRUE, items |-> <<>>, log |-> Some("Error fetching")]

\* The catch block of fetchFeed: both branches log and return [].
fetchFeedCatch(exc) ==
    IF exc = "AbortError"
    THEN [raised |-> FALSE, items |-> <<>>, log |-> Some("Timeout fetching")]
    ELSE [raised |-> FALSE, items |-> <<>>, log |-> Some("Error fetching")]

\* fetchFeed as a whole, given what its retrieval ran into.
fetchFeed(feedInfo, filter, ev) ==
    LET t == fetchFeedTry(feedInfo, filter, ev)
    IN IF t.exc # Null
       THEN fetchFeedCatch(t.exc[1]) @@ [outcome |-> t.outcome]
       ELSE [raised |-> FALSE, items |-> t.ret, log |-> t.log, outcome |-> t.outcome]

\* --------------------------------------------------------- fetchAllFeeds
N == Len(feeds)
Tasks == 1..N
\* The array index feeds.map hands to the task of the i-th feed.
Index(i) == i - 1

\* A wait that only counts the tasks that returned (as Promise.all would).
SettledFulfilledOnly(i) == tpc[i] = "fulfilled"

\* Promise.allSettled: a task has settled once it returned or threw.
Settled(i) == tpc[i] \in {"fulfilled", "rejected"}

\* The arguments one task passes to onProgress.
progressArgs(i) == [completed |-> Index(i) + 1, total |-> N]

\* The rest of a task once its fetchFeed has completed with r: the await
\* resumes (or rethrows), onProgress is called, and the task settles.  The
\* continuation runs in the microtask that follows fetchFeed's return, before
\* any other retrieval event is handled, so it is one step with it.
\* cbThrows: whether this call of the callback throws.
TaskCompletes(i, r, cbThrows) ==
    /\ outcome' = [outcome EXCEPT ![i] = r.outcome]
    /\ raised' = [raised EXCEPT ![i] = r.raised]
    /\ items' = [items EXCEPT ![i] = r.items]
    /\ logged' = [logged EXCEPT ![i] = r.log]
    /\ completion' = Append(completion, i)
    /\ IF r.raised
       THEN /\ tpc' = [tpc EXCEPT ![i] = "rejected"]
            /\ progressLog' = progressLog
       ELSE /\ progressLog' = IF hasProgress
                              THEN Append(progressLog, progressArgs(i))
                              ELSE progressLog
            /\ tpc' = [tpc EXCEPT ![i] =
                         IF hasProgress /\ cbThrows THEN "rejected" ELSE "fulfilled"]

\* fetchAllFeeds is called: feeds.map starts every task, each runs up to its
\* first await, inside fetchWithTimeout, with its abort timer armed.
FetchAllStart ==
    /\ fpc = "idle"
    /\ fpc' = "running"
    /\ tpc' = [i \in Tasks |-> "awaitFetch"]
    /\ timer' = [i \in Tasks |-> "armed"]
    /\ UNCHANGED <<feeds, dateFilter, hasProgress, outcome, raised, items, logged,
                   progressLog, completion, allItems>>
    /\ UNCHANGED notFetch

\* The request of task i is answered with a 2xx response: fetchWithTimeout
\* clears the timer and fetchFeed goes on to await response.text().
ResponseOk(i) ==
    /\ fpc = "running" /\ tpc[i] = "awaitFetch"
    /\ timer' = [timer EXCEPT ![i] = "cleared"]
    /\ tpc' = [tpc EXCEPT ![i] = "awaitText"]
    /\ UNCHANGED <<feeds, dateFilter, hasProgress, fpc, outcome, raised, items,
                   logged, progressLog, completion, allItems>>
    /\ UNCHANGED notFetch

\* The request of task i ends otherwise: a non-2xx response or a rejection.
ResponseFails(i) ==
    /\ fpc = "running" /\ tpc[i] = "awaitFetch"
    /\ timer' = [timer EXCEPT ![i] = "cleared"]
    /\ \E kind \in {"http", "network"}, cbThrows \in BOOLEAN :
          TaskCompletes(i, fetchFeed(feeds[i], dateFilter,
                                     [kind |-> kind, content |-> ""]), cbThrows)
    /\ UNCHANGED <<feeds, dateFilter, hasProgress, fpc, allItems>>
    /\ UNCHANGED notFetch

\* The abort timer of task i fires while its request is pending: the request
\* rejects with AbortError, the finally clause clears the timer.
TimerFires(i) ==
    /\ fpc = "running" /\ tpc[i] = "awaitFetch" /\ timer[i] = "armed"
    /\ timer' = [timer EXCEPT ![i] = "cleared"]
    /\ \E cbThrows \in BOOLEAN :
          TaskCompletes(i, fetchFeed(feeds[i], dateFilter,
                                     [kind |-> "timeout", content |-> ""]), cbThrows)
    /\ UNCHANGED <<feeds, dateFilter, hasProgress, fpc, allItems>>
    /\ UNCHANGED notFetch

\* response.text() of task i resolves: the document is parsed and the items
\* are built, filtered and returned.
BodyArrives(i) ==
    /\ fpc = "running" /\ tpc[i] = "awaitText"
    /\ \E content \in Contents, cbThrows \in BOOLEAN :
          TaskCompletes(i, fetchFeed(feeds[i], dateFilter,
                                     [kind |-> "content", content |-> content]), cbThrows)
    /\ UNCHANGED <<feeds, dateFilter, hasProgress, fpc, timer, allItems>>
    /\ UNCHANGED notFetch

\* response.text() of task i rejects.
BodyFails(i) ==
    /\ fpc = "running" /\ tpc[i] = "awaitText"
    /\ \E cbThrows \in BOOLEAN :
          TaskCompletes(i, fetchFeed(feeds[i], dateFilter,
                                     [kind |-> "body", content |-> ""]), cbThrows)
    /\ UNCHANGED <<feeds, dateFilter, hasProgress, fpc, timer, allItems>>
    /\ UNCHANGED notFetch

\* A merge that walks the settled results from the last task to the first.
RECURSIVE mergeSettledBackwards(_, _, _)
mergeSettledBackwards(status, values, i) ==
    IF i > Len(values) THEN <<>>
    ELSE mergeSettledBackwards(status, values, i + 1)
             \o (IF status[i] = "fulfilled" THEN values[i] ELSE <<>>)

\* A merge that takes the value of every task, whatever its status.
RECURSIVE mergeSettledAny(_, _, _)
mergeSettledAny(status, values, i) ==
    IF i > Len(values) THEN <<>>
    ELSE values[i] \o mergeSettledAny(status, values, i + 1)

\* The loop over the settled results: the values of the fulfilled tasks, in
\* the order of the feeds.
RECURSIVE mergeSettled(_, _, _)
mergeSettled(status, values, i) ==
    IF i > Len(values) THEN <<>>
    ELSE (IF status[i] = "fulfilled" THEN values[i] ELSE <<>>)
             \o mergeSettled(status, values, i + 1)

\* Promise.allSettled resolves once every task has settled; the results are
\* merged and returned.
FetchAllReturns ==
    /\ fpc = "running"
    /\ \A i \in Tasks : Settled(i)
    /\ allItems' = mergeSettled(tpc, items, 1)
    /\ fpc' = "done"
    /\ UNCHANGED <<feeds, dateFilter, hasProgress, tpc, timer, outcome, raised, items,
                   logged, progressLog, completion>>
    /\ UNCHANGED notFetch

FetchInit ==
    /\ feeds \in FeedLists
    /\ dateFilter \in DateFilters
    /\ hasProgress \in BOOLEAN
    /\ fpc = "idle"
    /\ tpc = [i \in Tasks |-> "notStarted"]
    /\ timer = [i \in Tasks |-> "unset"]
    /\ outcome = [i \in Tasks |-> "pending"]
    /\ raised = [i \in Tasks |-> FALSE]
    /\ items = [i \in Tasks |-> <<>>]
    /\ logged = [i \in Tasks |-> Null]
    /\ progressLog = <<>>
    /\ completion = <<>>
    /\ allItems = <<>>

FetchNext ==
    \/ FetchAllStart
    \/ \E i \in Tasks : ResponseOk(i)
    \/ \E i \in Tasks : ResponseFails(i)
    \/ \E i \in Tasks : TimerFires(i)
    \/ \E i \in Tasks : BodyArrives(i)
    \/ \E i \in Tasks : BodyFails(i)
    \/ FetchAllReturns

\* ------------------------------------------------------ categorizeItems
\* The items categorizeItems is given: the k-th has the k-th link, so that two
\* items with the same date are still told apart; category and date vary.
Links == <<"l1", "l2", "l3", "l4", "l5", "l6">>
CategoryValues == {"", "Tech", "News"}
PubDates == {Null, Some(0), Some(1)}

ItemAt(k, category, pubDate) ==
    [title |-> "t", link |-> Links[k], description |-> "", pubDate |-> pubDate,
     feedTitle |-> "f", category |-> category]

ItemInputs ==
    UNION { { [k \in 1..n |-> ItemAt(k, cs[k], ds[k])] :
                cs \in [1..n -> CategoryValues], ds \in [1..n -> PubDates] } :
            n \in 0..MaxItems }

\* A grouping key without the default label.
categoryOfRaw(item) == item.category

\* item.category || "Uncategorized"
categoryOf(item) == IF item.category # "" THEN item.category ELSE "Uncategorized"

\* Where (if anywhere) the object has the key.
keyIndex(obj, key) ==
    IF \E k \in DOMAIN obj : obj[k].category = key
    THEN CHOOSE k \in DOMAIN obj : obj[k].category = key
    ELSE 0

\* A grouping pass that creates a new key and forgets the item that made it.
pushItemKeyOnly(obj, item) ==
    LET category == categoryOf(item)
        k == keyIndex(obj, category)
    IN IF k = 0
       THEN Append(obj, [category |-> category, items |-> <<>>])
       ELSE [obj EXCEPT ![k].items = Append(@, item)]

\* One pass of the grouping loop: create the key if it is new, push the item.
\* A new key goes last (the keys here are not integer-like).
pushItem(obj, item) ==
    LET category == categoryOf(item)
        k == keyIndex(obj, category)
    IN IF k = 0
       THEN Append(obj, [category |-> category, items |-> <<item>>])
       ELSE [obj EXCEPT ![k].items = Append(@, item)]

\* A comparator that puts the oldest first.
compareItemsAscending(a, b) ==
    IF a.pubDate = Null /\ b.pubDate = Null THEN 0
    ELSE IF a.pubDate = Null THEN 1
    ELSE IF b.pubDate = Null THEN -1
    ELSE a.pubDate[1] - b.pubDate[1]

\* The comparator handed to sort.
compareItems(a, b) ==
    IF a.pubDate = Null /\ b.pubDate = Null THEN 0
    ELSE IF a.pubDate = Null THEN 1
    ELSE IF b.pubDate = Null THEN -1
    ELSE b.pubDate[1] - a.pubDate[1]

\* An unstable sort: an element goes before the elements it compares equal to.
RECURSIVE insertSortedUnstable(_, _)
insertSortedUnstable(sorted, x) ==
    IF sorted = <<>> THEN <<x>>
    ELSE IF compareItems(Head(sorted), x) >= 0 THEN <<x>> \o sorted
    ELSE <<Head(sorted)>> \o insertSortedUnstable(Tail(sorted), x)

\* Array.prototype.sort is a stable sort: an element goes before the first
\* element the comparator puts after it, and after all it compares equal to.
RECURSIVE insertSorted(_, _)
insertSorted(sorted, x) ==
    IF sorted = <<>> THEN <<x>>
    ELSE IF compareItems(Head(sorted), x) > 0 THEN <<x>> \o sorted
    ELSE <<Head(sorted)>> \o insertSorted(Tail(sorted), x)

RECURSIVE arraySort(_)
arraySort(arr) ==
    IF arr = <<>> THEN <<>>
    ELSE insertSorted(arraySort(SubSeq(arr, 1, Len(arr) - 1)), arr[Len(arr)])

CategorizeStart ==
    /\ cpc = "idle"
    /\ cpc' = "grouping"
    /\ categorized' = <<>>
    /\ ci' = 0
    /\ UNCHANGED <<cinput, ck>>
    /\ UNCHANGED notCat

GroupItem ==
    /\ cpc = "grouping" /\ ci < Len(cinput)
    /\ categorized' = pushItem(categorized, cinput[ci + 1])
    /\ ci' = ci + 1
    /\ UNCHANGED <<cinput, cpc, ck>>
    /\ UNCHANGED notCat

GroupingEnds ==
    /\ cpc = "grouping" /\ ci = Len(cinput)
    /\ cpc' = "sorting"
    /\ ck' = 0
    /\ UNCHANGED <<cinput, ci, categorized>>
    /\ UNCHANGED notCat

SortCategory ==
    /\ cpc = "sorting" /\ ck < Len(categorized)
    /\ categorized' = [categorized EXCEPT ![ck + 1].items = arraySort(@)]
    /\ ck' = ck + 1
    /\ UNCHANGED <<cinput, cpc, ci>>
    /\ UNCHANGED notCat

CategorizeReturns ==
    /\ cpc = "sorting" /\ ck = Len(categorized)
    /\ cpc' = "done"
    /\ UNCHANGED <<cinput, ci, ck, categorized>>
    /\ UNCHANGED notCat

CatStart == cpc = "idle" /\ ci = 0 /\ ck = 0 /\ categorized = <<>>

CatInit == cinput \in ItemInputs /\ CatStart

CatIdle == cinput = <<>> /\ CatStart

CatNext ==
    \/ CategorizeStart
    \/ GroupItem
    \/ GroupingEnds
    \/ SortCategory
    \/ CategorizeReturns

\* ------------------------------------------------- summarizeCategory
MAX_RETRIES == 3
RETRY_DELAY == 1000
\* The cap of buildPrompt: items.slice(0, 50).
PromptCap == 50

Min(a, b) == IF a < b THEN a ELSE b

\* The items of a category handed to the summarizer: k-th of its group.
SummaryItem(k, category) ==
    [title |-> ToString(k), link |-> ToString(k),
     description |-> IF k % 2 = 0 THEN "" ELSE "d",
     pubDate |-> IF k % 3 = 0 THEN Null ELSE Some(k % 2),
     feedTitle |-> "f", category |-> category]

ItemListSizes == {0, 2, PromptCap + 1}

\* The keys a CategorizedItems object may hold, in the order it holds them.
GroupLabels == <<"Tech", "", "News", "Uncategorized">>

\* The strictly increasing index sequences of length n into GroupLabels.
LabelPicks(n) ==
    { f \in [1..n -> 1..Len(GroupLabels)] : \A a, b \in 1..n : a < b => f[a] < f[b] }

GroupInputs ==
    UNION { { [k \in 1..n |->
                 [category |-> GroupLabels[f[k]],
                  items |-> [m \in 1..sz[k] |-> SummaryItem(m, GroupLabels[f[k]])]]] :
                f \in LabelPicks(n), sz \in [1..n -> ItemListSizes] } :
            n \in 0..MaxCats }

\* One article of the prompt (the 500-character cut of the description is not
\* modelled: descriptions here are shorter).
promptArticle(item, index) ==
    [n |-> index + 1, title |-> item.title, feedTitle |-> item.feedTitle,
     date |-> IF item.pubDate # Null THEN ToString(item.pubDate[1]) ELSE "Unknown date",
     description |-> IF item.description # "" THEN item.description ELSE "No description"]

\* A prompt built from every item of the category.
buildPromptUncapped(category, its) ==
    [category |-> category,
     articles |-> [k \in 1..Len(its) |-> promptArticle(its[k], k - 1)]]

\* buildPrompt: items.slice(0, 50).map(...)
buildPrompt(category, its) ==
    [category |-> category,
     articles |-> [k \in 1..Min(Len(its), PromptCap) |-> promptArticle(its[k], k - 1)]]

\* What one client.chat.completions.create call can come to: a rejection, a
\* response without content, content that is not JSON, the JSON null, or a
\* JSON object whose overview and highlights may each be missing.
Responses ==
    [kind : {"reject", "nocontent", "badjson", "jsonnull"}]
        \cup [kind : {"json"}, overview : {Null, Some(""), Some("ov")},
              highlights : {Null, Some(<<"h1", "h2">>)}]

\* A return statement that degrades as a whole when either field is missing.
successResultAllOrNothing(parsed) ==
    IF Truthy(parsed.overview) /\ parsed.highlights # Null
    THEN [overview |-> parsed.overview[1], highlights |-> parsed.highlights[1]]
    ELSE [overview |-> "Summary could not be generated.", highlights |-> <<>>]

\* The return statement of the try block: parsed.overview || ..., parsed.highlights || [].
successResult(parsed) ==
    [overview |-> IF Truthy(parsed.overview) THEN parsed.overview[1]
                  ELSE "No overview available.",
     highlights |-> IF parsed.highlights # Null THEN parsed.highlights[1] ELSE <<>>]

\* The body of the try block on a response: it throws unless it is a JSON object.
attemptThrows(resp) == resp.kind # "json"

\* A retry test that sleeps after the last attempt as well.
shouldRetryAlways(att) == att < MAX_RETRIES

\* A retry test that gives up one attempt early.
shouldRetryOnce(att) == att < MAX_RETRIES - 2

\* attempt < MAX_RETRIES - 1
shouldRetry(att) == att < MAX_RETRIES - 1

\* A delay computed from the zero-based attempt.
retryDelayZeroBased(att) == RETRY_DELAY * att

\* RETRY_DELAY * (attempt + 1)
retryDelay(att) == RETRY_DELAY * (att + 1)

exhaustedResult ==
    [overview |-> "Summary could not be generated.", highlights |-> <<>>]

\* --------------------------------------------- summarizeAllCategories
emptySummary(category) ==
    [category |-> category, overview |-> "No articles in this category.",
     highlights |-> <<>>, items |-> <<>>]

makeSummary(category, result, its) ==
    [category |-> category, overview |-> result.overview,
     highlights |-> result.highlights, items |-> its]

\* An emptiness test that never holds.
isEmptyGroupNever(its) == Len(its) < 0

\* items.length === 0
isEmptyGroup(its) == Len(its) = 0

\* A push that drops the record of a category whose attempts were exhausted.
pushSummaryUnlessExhausted(list, summary) ==
    IF summary.overview = "Summary could not be generated." THEN list
    ELSE Append(list, summary)

\* summaries.push(...)
pushSummary(list, summary) == Append(list, summary)

\* An iteration that walks the keys from the last to the first.
CurrentBackwards == groups[Len(groups) - si]

\* const category = categories[i]; const items = categorizedItems[category]
Current == groups[si + 1]

Event(ev, category, n) == [ev |-> ev, category |-> category, n |-> n]

\* A progress call that reports the zero-based loop variable.
withProgressZeroBased(tr) ==
    IF sHasProgress
    THEN Append(tr, [ev |-> "progress", category |-> Current.category, n |-> si,
                     total |-> Len(groups)])
    ELSE tr

\* The trace after the onProgress call of the current category, if any.
withProgress(tr) ==
    IF sHasProgress
    THEN Append(tr, [ev |-> "progress", category |-> Current.category, n |-> si + 1,
                     total |-> Len(groups)])
    ELSE tr

\* summarizeAllCategories is called: getClient throws without an API key.
SummarizeAllStart ==
    /\ spc = "idle"
    /\ \E apiKey \in BOOLEAN :
          spc' = IF apiKey THEN "loop" ELSE "thrown"
    /\ si' = 0
    /\ summaries' = <<>>
    /\ UNCHANGED <<groups, sHasProgress, attempt, prompt, trace>>
    /\ UNCHANGED notEnrich

\* if (!category) continue
SkipCategory ==
    /\ spc = "loop" /\ si < Len(groups)
    /\ Current.category = ""
    /\ si' = si + 1
    /\ UNCHANGED <<groups, sHasProgress, spc, attempt, prompt, summaries, trace>>
    /\ UNCHANGED notEnrich

\* The onProgress call of an iteration throws: the run rejects.
ProgressThrows ==
    /\ spc = "loop" /\ si < Len(groups)
    /\ Current.category # ""
    /\ sHasProgress
    /\ trace' = withProgress(trace)
    /\ spc' = "thrown"
    /\ UNCHANGED <<groups, sHasProgress, si, attempt, prompt, summaries>>
    /\ UNCHANGED notEnrich

\* An iteration for a category without items: progress, placeholder, continue.
EmptyCategory ==
    /\ spc = "loop" /\ si < Len(groups)
    /\ Current.category # ""
    /\ isEmptyGroup(Current.items)
    /\ summaries' = pushSummary(summaries, emptySummary(Current.category))
    /\ trace' = Append(withProgress(trace),
                       Event("push", Current.category, Len(summaries) + 1))
    /\ si' = si + 1
    /\ UNCHANGED <<groups, sHasProgress, spc, attempt, prompt>>
    /\ UNCHANGED notEnrich

\* An iteration for a category with items: progress, then summarizeCategory
\* builds the prompt and issues its first call.
BeginCategory ==
    /\ spc = "loop" /\ si < Len(groups)
    /\ Current.category # ""
    /\ ~isEmptyGroup(Current.items)
    /\ prompt' = buildPrompt(Current.category, Current.items)
    /\ attempt' = 0
    /\ trace' = Append(withProgress(trace), Event("call", Current.category, 1))
    /\ spc' = "awaitCreate"
    /\ UNCHANGED <<groups, sHasProgress, si, summaries>>
    /\ UNCHANGED notEnrich

\* The call resolves with a usable response: summarizeCategory returns it and
\* the record is pushed.
AttemptSucceeds ==
    /\ spc = "awaitCreate"
    /\ \E resp \in Responses :
          /\ ~attemptThrows(resp)
          /\ summaries' = pushSummary(summaries,
                 makeSummary(Current.category, successResult(resp), Current.items))
          /\ trace' = trace \o
                 <<[ev |-> "ok", category |-> Current.category, n |-> attempt + 1,
                    response |-> resp],
                   Event("push", Current.category, Len(summaries) + 1)>>
    /\ si' = si + 1
    /\ spc' = "loop"
    /\ UNCHANGED <<groups, sHasProgress, attempt, prompt>>
    /\ UNCHANGED notEnrich

\* The attempt fails and another is due: the backoff sleep starts.
AttemptFailsRetry ==
    /\ spc = "awaitCreate"
    /\ \E resp \in Responses : attemptThrows(resp)
    /\ shouldRetry(attempt)
    /\ trace' = trace \o <<Event("fail", Current.category, attempt + 1),
                           Event("sleep", Current.category, retryDelay(attempt))>>
    /\ spc' = "sleeping"
    /\ UNCHANGED <<groups, sHasProgress, si, attempt, prompt, summaries>>
    /\ UNCHANGED notEnrich

\* The last attempt fails: the placeholder is returned and pushed.
AttemptFailsLast ==
    /\ spc = "awaitCreate"
    /\ \E resp \in Responses : attemptThrows(resp)
    /\ ~shouldRetry(attempt)
    /\ summaries' = pushSummary(summaries,
           makeSummary(Current.category, exhaustedResult, Current.items))
    /\ trace' = trace \o <<Event("fail", Current.category, attempt + 1),
                           Event("push", Current.category, Len(summaries) + 1)>>
    /\ si' = si + 1
    /\ spc' = "loop"
    /\ UNCHANGED <<groups, sHasProgress, attempt, prompt>>
    /\ UNCHANGED notEnrich

\* The sleep ends: attempt++ and, while attempt < MAX_RETRIES, the next call.
SleepEnds ==
    /\ spc = "sleeping"
    /\ attempt' = attempt + 1
    /\ IF attempt + 1 < MAX_RETRIES
       THEN /\ trace' = Append(trace, Event("call", Current.category, attempt + 2))
            /\ spc' = "awaitCreate"
            /\ UNCHANGED <<si, summaries>>
       ELSE /\ summaries' = pushSummary(summaries,
                   makeSummary(Current.category, exhaustedResult, Current.items))
            /\ trace' = Append(trace, Event("push", Current.category, Len(summaries) + 1))
            /\ si' = si + 1
            /\ spc' = "loop"
    /\ UNCHANGED <<groups, sHasProgress, prompt>>
    /\ UNCHANGED notEnrich

SummarizeAllReturns ==
    /\ spc = "loop" /\ si = Len(groups)
    /\ spc' = "done"
    /\ UNCHANGED <<groups, sHasProgress, si, attempt, prompt, summaries, trace>>
    /\ UNCHANGED notEnrich

NoPrompt == [category |-> "", articles |-> <<>>]

EnrichStart ==
    /\ spc = "idle" /\ si = 0 /\ attempt = 0 /\ prompt = NoPrompt
    /\ summaries = <<>> /\ trace = <<>>

EnrichInit == groups \in GroupInputs /\ sHasProgress \in BOOLEAN /\ EnrichStart

EnrichIdle == groups = <<>> /\ sHasProgress = FALSE /\ EnrichStart

EnrichNext ==
    \/ SummarizeAllStart
    \/ SkipCategory
    \/ ProgressThrows
    \/ EmptyCategory
    \/ BeginCategory
    \/ AttemptSucceeds
    \/ AttemptFailsRetry
    \/ AttemptFailsLast
    \/ SleepEnds
    \/ SummarizeAllReturns

\* ------------------------------------------------------- specifications
FetchIdle ==
    /\ feeds = <<>> /\ dateFilter = [since |-> Null, until |-> Null]
    /\ hasProgress = FALSE /\ fpc = "idle"
    /\ tpc = <<>> /\ timer = <<>> /\ outcome = <<>> /\ raised = <<>>
    /\ items = <<>> /\ logged = <<>>
    /\ progressLog = <<>> /\ completion = <<>> /\ allItems = <<>>

\* fetchAllFeeds on its own, over every feed list, window and schedule.
InitFetch == FetchInit /\ CatIdle /\ EnrichIdle /\ LoopIdle
SpecFetch == InitFetch /\ [][FetchNext]_vars
\* The same, with the steps the program itself is bound to take: the call
\* starts its tasks, an armed timer fires unless it is cleared first, and the
\* call returns once every task has settled.  Nothing is assumed of the
\* remote: it may never answer, and never finish a body it began.
SpecFetchFair ==
    /\ InitFetch /\ [][FetchNext]_vars
    /\ WF_vars(FetchAllStart)
    /\ WF_vars(FetchAllReturns)
    /\ \A i \in 1..MaxFeeds : WF_vars(i \in Tasks /\ TimerFires(i))
\* categorizeItems on its own, over every input sequence.
InitCategorize == CatInit /\ FetchIdle /\ EnrichIdle /\ LoopIdle
SpecCategorize == InitCategorize /\ [][CatNext]_vars
\* summarizeAllCategories on its own, over every grouping and every pattern
\* of failing and succeeding attempts.
InitSummarize == EnrichInit /\ FetchIdle /\ CatIdle /\ LoopIdle
SpecSummarize == InitSummarize /\ [][EnrichNext]_vars
\* The same, where the run keeps going: every awaited call resolves or
\* rejects, every sleep ends, and the loop takes its next step.
SpecSummarizeFair == InitSummarize /\ [][EnrichNext]_vars /\ WF_vars(EnrichNext)
\* The item loop of fetchFeed on its own, over every combination of date
\* fields and every window.
InitItemLoop == LoopInit /\ FetchIdle /\ CatIdle /\ EnrichIdle
SpecItemLoop == InitItemLoop /\ [][LoopNext]_vars

\* ---- main (index.ts): categorizeItems, then summarizeAllCategories ----
\* The items main hands to categorizeItems; their dates play no part here.
PipelineInputs ==
    { inp \in ItemInputs :
        \A k \in DOMAIN inp : inp[k].pubDate = Null /\ inp[k].category \in {"", "Tech"} }

\* main calls summarizeAllCategories(categorized, callback): getClient throws
\* without an API key, otherwise the loop starts.
MainSummarize ==
    /\ cpc = "done" /\ spc = "idle"
    /\ groups' = categorized
    /\ sHasProgress' = TRUE
    /\ \E apiKey \in BOOLEAN :
          spc' = IF apiKey THEN "loop" ELSE "thrown"
    /\ si' = 0
    /\ summaries' = <<>>
    /\ UNCHANGED <<attempt, prompt, trace>>
    /\ UNCHANGED <<fetchVars, catVars, loopVars>>

InitPipeline ==
    /\ cinput \in PipelineInputs /\ CatStart
    /\ FetchIdle /\ EnrichIdle /\ LoopIdle

\* The two branches of the loop of summarizeAllCategories that skip a key,
\* `if (!category) continue` and `if (items.length === 0)`, are left out
\* here: C20 shows that neither can be taken on what categorizeItems returns.
PipelineNext ==
    \/ CategorizeStart
    \/ GroupItem
    \/ GroupingEnds
    \/ SortCategory
    \/ CategorizeReturns
    \/ MainSummarize
    \/ ProgressThrows
    \/ BeginCategory
    \/ AttemptSucceeds
    \/ AttemptFailsRetry
    \/ AttemptFailsLast
    \/ SleepEnds
    \/ SummarizeAllReturns

SpecPipeline == InitPipeline /\ [][PipelineNext]_vars

\* =============================================================== claims
Range(seq) == { seq[k] : k \in DOMAIN seq }
occurrences(x, seq) == Cardinality({ k \in DOMAIN seq : seq[k] = x })

\* ---------------------------------------------------------- fetch stage
FailureOutcomes == {"timeout", "network", "http", "body", "parseAbsent", "parseThrew"}

\* C1: onProgress is invoked exactly N times, and the completed-count
\* arguments seen in call order run 1, 2, ..., N, the total always being N.
C1_ProgressCountsUp ==
    hasProgress =>
        /\ \A k \in DOMAIN progressLog : progressLog[k] = [completed |-> k, total |-> N]
        /\ (fpc = "done" => Len(progressLog) = N)

\* How often x occurs in the sequences fetchFeed returned for the tasks in S.
RECURSIVE fetchedOccurrences(_, _)
fetchedOccurrences(x, S) ==
    IF S = {} THEN 0
    ELSE LET i == CHOOSE j \in S : TRUE
         IN occurrences(x, items[i]) + fetchedOccurrences(x, S \ {i})

AnyItem == Range(allItems) \cup UNION { Range(items[i]) : i \in Tasks }

C3_FetchFeedNeverRaises ==
    \A i \in Tasks :
        /\ ~raised[i]
        /\ outcome[i] \in FailureOutcomes =>
              /\ Settled(i)
              /\ items[i] = <<>>
              /\ logged[i] # Null

\* A timed-out source and one whose parser threw, both completed.
C3_Witness ==
    \E i, j \in Tasks :
        /\ outcome[i] = "timeout" /\ outcome[j] = "parseThrew"
        /\ Settled(i) /\ Settled(j)
        /\ items[i] = <<>> /\ items[j] = <<>>

\* ------------------------------------------------------- summarization
EventsOf(ev, category) ==
    { p \in DOMAIN trace : trace[p].ev = ev /\ trace[p].category = category }

\* The position of a label among the keys of groups (0: not a key).
GroupIndex(category) ==
    IF \E k \in DOMAIN groups : groups[k].category = category
    THEN CHOOSE k \in DOMAIN groups : groups[k].category = category
    ELSE 0

SummariesOf(category) == { k \in DOMAIN summaries : summaries[k].category = category }

\* The category has been finalized with every attempt failed.
Exhausted(category) ==
    /\ EventsOf("push", category) # {}
    /\ EventsOf("call", category) # {}
    /\ EventsOf("ok", category) = {}

\* C4: a non-empty category whose attempts all fail gets exactly 3 attempts
\* and then the placeholder record with its item list; the run continues.
C4_ExhaustedAfterThreeAttempts ==
    \A k \in DOMAIN groups :
        LET c == groups[k].category IN
        /\ Cardinality(EventsOf("call", c)) <= 3
        /\ Exhausted(c) =>
              /\ Cardinality(EventsOf("call", c)) = 3
              /\ Cardinality(EventsOf("fail", c)) = 3
              /\ \E m \in DOMAIN summaries :
                    /\ SummariesOf(c) = {m}
                    /\ summaries[m] = [category |-> c,
                                       overview |-> "Summary could not be generated.",
                                       highlights |-> <<>>,
                                       items |-> groups[k].items]
              /\ groups[k].items # <<>>
              /\ si >= k
              /\ trace[Len(trace)].ev = "push" => spc \in {"loop", "done"}

\* An exhausted category followed by a category that was summarized.
C4_Witness ==
    /\ spc = "done" /\ Len(groups) = 2
    /\ Exhausted(groups[1].category)
    /\ Len(groups[1].items) = 2
    /\ EventsOf("ok", groups[2].category) # {}
    /\ Len(summaries) = 2

\* C5: after the k-th failed attempt (k = 1, 2) the loop sleeps
\* RETRY_DELAY * k and then makes attempt k + 1; there is no sleep after the
\* 3rd failure nor after a success; the first success ends the loop and its
\* result is returned.
C5_LinearBackoff ==
    \A p \in DOMAIN trace :
        LET e == trace[p] IN
        /\ e.ev = "fail" =>
              /\ e.n \in 1..3
              /\ p < Len(trace)
              /\ e.n < 3 =>
                    /\ trace[p + 1] = Event("sleep", e.category, RETRY_DELAY * e.n)
                    /\ p + 2 <= Len(trace) =>
                          trace[p + 2] = Event("call", e.category, e.n + 1)
              /\ e.n = 3 => trace[p + 1].ev = "push" /\ trace[p + 1].category = e.category
        /\ e.ev = "ok" =>
              /\ p < Len(trace)
              /\ trace[p + 1].ev = "push" /\ trace[p + 1].category = e.category
              /\ Truthy(e.response.overview) =>
                    summaries[trace[p + 1].n].overview = e.response.overview[1]
              /\ e.response.highlights # Null =>
                    summaries[trace[p + 1].n].highlights = e.response.highlights[1]
              /\ \A q \in DOMAIN trace :
                    q > p => ~(trace[q].category = e.category
                               /\ trace[q].ev \in {"call", "sleep", "fail", "ok"})
        /\ e.ev = "sleep" =>
              /\ p > 1
              /\ trace[p - 1].ev = "fail" /\ trace[p - 1].category = e.category
              /\ trace[p - 1].n \in {1, 2}
        /\ (e.ev = "call" /\ e.n > 1) =>
              trace[p - 1] = Event("sleep", e.category, RETRY_DELAY * (e.n - 1))

\* Fail, fail, succeed: sleeps of 1x and 2x the delay, then the success.
C5_Witness ==
    /\ Len(trace) >= 8 /\ Len(summaries) >= 1
    /\ LET c == summaries[1].category
           b == CHOOSE p \in DOMAIN trace : trace[p] = Event("call", c, 1)
       IN /\ EventsOf("call", c) # {}
          /\ b + 7 <= Len(trace)
          /\ trace[b + 1] = Event("fail", c, 1)
          /\ trace[b + 2] = Event("sleep", c, 1000)
          /\ trace[b + 3] = Event("call", c, 2)
          /\ trace[b + 4] = Event("fail", c, 2)
          /\ trace[b + 5] = Event("sleep", c, 2000)
          /\ trace[b + 6] = Event("call", c, 3)
          /\ trace[b + 7].ev = "ok"
          /\ summaries[1].overview = "ov"

\* C6: for a category with zero items the external call is never made, and
\* the record emitted for it is the zero-items placeholder.
C6_EmptyCategoryShortCircuits ==
    \A k \in DOMAIN groups :
        groups[k].items = <<>> =>
            LET c == groups[k].category IN
            /\ EventsOf("call", c) = {}
            /\ ~(spc \in {"awaitCreate", "sleeping"} /\ si + 1 = k)
            /\ (c # "" /\ si >= k) =>
                  \E m \in DOMAIN summaries :
                      /\ SummariesOf(c) = {m}
                      /\ summaries[m] = [category |-> c,
                                         overview |-> "No articles in this category.",
                                         highlights |-> <<>>, items |-> <<>>]

\* A zero-items category finalized between two calls for its neighbour.
C6_Witness ==
    /\ spc = "done" /\ Len(groups) = 2
    /\ groups[1].items = <<>> /\ groups[1].category # ""
    /\ groups[2].items # <<>> /\ groups[2].category # ""
    /\ summaries[1].overview = "No articles in this category."
    /\ EventsOf("call", groups[2].category) # {}

\* C7: the returned sequence holds exactly one record per category label of
\* the group (labels are non-empty strings), whatever the attempts did.
C7_OneSummaryPerLabel ==
    (spc = "done" /\ \A k \in DOMAIN groups : groups[k].category # "") =>
        /\ Len(summaries) = Len(groups)
        /\ \A k \in DOMAIN groups :
              Cardinality(SummariesOf(groups[k].category)) = 1
        /\ \A m \in DOMAIN summaries : GroupIndex(summaries[m].category) # 0

\* Two labels, one exhausted and one without items: two records.
C7_Witness ==
    /\ spc = "done" /\ Len(groups) = 2 /\ Len(summaries) = 2
    /\ \A k \in DOMAIN groups : groups[k].category # ""
    /\ \E k \in DOMAIN groups : Exhausted(groups[k].category)
    /\ \E k \in DOMAIN groups : groups[k].items = <<>>

\* C8 as stated: onProgress is invoked once per category, after the record of
\* that category has been appended.
C8_ProgressAfterFinalized ==
    /\ \A p \in DOMAIN trace :
          trace[p].ev = "progress" =>
              \E q \in 1..(p - 1) :
                  trace[q].ev = "push" /\ trace[q].category = trace[p].category
    /\ (spc = "done" /\ sHasProgress) =>
          \A k \in DOMAIN groups :
              groups[k].category # "" =>
                  Cardinality(EventsOf("progress", groups[k].category)) = 1

\* C8 as amended: onProgress(i + 1, total, label) is invoked once per
\* category, at the start of its iteration: after the record of every earlier
\* category has been appended, and before the first attempt and the record
\* of its own category.
C8_ProgressBeforeSummarizing ==
    sHasProgress =>
        /\ \A p \in DOMAIN trace :
              LET e == trace[p] IN
              /\ e.ev = "progress" =>
                    /\ GroupIndex(e.category) = e.n
                    /\ e.total = Len(groups)
                    /\ \A q \in 1..(p - 1) :
                          /\ trace[q].category # e.category
                          /\ GroupIndex(trace[q].category) < e.n
                          /\ EventsOf("push", trace[q].category) # {}
                    /\ \A q \in DOMAIN trace :
                          (q # p /\ trace[q].ev = "progress") =>
                              trace[q].category # e.category
              /\ e.ev \in {"call", "push"} =>
                    \E q \in 1..(p - 1) :
                        trace[q].ev = "progress" /\ trace[q].category = e.category
        /\ spc = "done" =>
              \A k \in DOMAIN groups :
                  groups[k].category # "" =>
                      Cardinality(EventsOf("progress", groups[k].category)) = 1

\* Two categories with attempts, each announced before its first attempt.
C8_Witness ==
    /\ spc = "done" /\ sHasProgress /\ Len(groups) = 2 /\ Len(summaries) = 2
    /\ trace[1].ev = "progress" /\ trace[2].ev = "call"
    /\ \E p \in DOMAIN trace :
          /\ trace[p].ev = "progress" /\ trace[p].n = 2
          /\ trace[p - 1].ev = "push"
          /\ p < Len(trace) /\ trace[p + 1].ev = "call"

\* ---------------------------------------------------------- categorizer
\* C9: each group is ordered by date descending, the items without a date
\* after all those with one.
C9_NewestFirstUndatedLast ==
    cpc = "done" =>
        \A g \in DOMAIN categorized :
            LET its == categorized[g].items IN
            \A p, q \in DOMAIN its :
                p < q =>
                    /\ its[p].pubDate = Null => its[q].pubDate = Null
                    /\ (its[p].pubDate # Null /\ its[q].pubDate # Null) =>
                          its[p].pubDate[1] >= its[q].pubDate[1]

\* Input [D1, D2 > D1, absent] in one category comes out [D2, D1, absent].
C9_Witness ==
    /\ cpc = "done" /\ Len(cinput) = 3 /\ Len(categorized) = 1
    /\ cinput[1].pubDate = Some(0) /\ cinput[2].pubDate = Some(1)
    /\ cinput[3].pubDate = Null
    /\ categorized[1].items = <<cinput[2], cinput[1], cinput[3]>>

InputPosition(item) == CHOOSE k \in DOMAIN cinput : cinput[k] = item

\* C10: within a group, two items with the same date, and two items without
\* a date, keep the order they had in the input.
C10_SortIsStable ==
    cpc = "done" =>
        \A g \in DOMAIN categorized :
            LET its == categorized[g].items IN
            \A p, q \in DOMAIN its :
                (p < q /\ its[p].pubDate = its[q].pubDate) =>
                    InputPosition(its[p]) < InputPosition(its[q])

\* Two items of one date behind a newer one that came last in the input.
C10_Witness ==
    /\ cpc = "done" /\ Len(cinput) = 3 /\ Len(categorized) = 1
    /\ cinput[1].pubDate = Some(0) /\ cinput[2].pubDate = Some(0)
    /\ cinput[3].pubDate = Some(1)
    /\ categorized[1].items = <<cinput[3], cinput[1], cinput[2]>>

\* Where an item sits in the grouping: the pairs (group, position).
Places(x) ==
    { gp \in UNION { {g} \X DOMAIN categorized[g].items : g \in DOMAIN categorized } :
        categorized[gp[1]].items[gp[2]] = x }

RECURSIVE groupedCount(_)
groupedCount(obj) ==
    IF obj = <<>> THEN 0 ELSE Len(Head(obj).items) + groupedCount(Tail(obj))

\* C11: categorize partitions its input: every input item is in exactly one
\* group, once, under its own label or under "Uncategorized" when its label
\* is empty; nothing is lost, added or changed.
C11_GroupsPartitionInput ==
    cpc = "done" =>
        /\ \A k \in DOMAIN cinput :
              /\ Cardinality(Places(cinput[k])) = 1
              /\ \A gp \in Places(cinput[k]) :
                    categorized[gp[1]].category =
                        (IF cinput[k].category = "" THEN "Uncategorized"
                         ELSE cinput[k].category)
        /\ groupedCount(categorized) = Len(cinput)
        /\ \A g \in DOMAIN categorized :
              Range(categorized[g].items) \subseteq Range(cinput)
        /\ \A g, h \in DOMAIN categorized :
              g # h => categorized[g].category # categorized[h].category

\* An item without a label grouped beside two items of one label.
C11_Witness ==
    /\ cpc = "done" /\ Len(cinput) = 3 /\ Len(categorized) = 2
    /\ cinput[1].category = "Tech" /\ cinput[2].category = ""
    /\ cinput[3].category = "Tech"
    /\ categorized[2].category = "Uncategorized"
    /\ categorized[2].items = <<cinput[2]>>
    /\ Len(categorized[1].items) = 2

\* C12: the window keeps an item exactly when its timestamp is not before
\* since and not after until, both bounds inclusive and each optional; an
\* item without a timestamp is always kept.
C12_WindowInclusive ==
    lpc = "next" =>
        LET t == parseDate(entryDateStr(parsedItem))
            sinceOk == itemFilter.since = Null \/ t[1] >= itemFilter.since[1]
            untilOk == itemFilter.until = Null \/ t[1] <= itemFilter.until[1]
        IN /\ (pushed # <<>>) <=> (t = Null \/ (sinceOk /\ untilOk))
           /\ Len(pushed) <= 1
           /\ pushed # <<>> => pushed[1].pubDate = t

\* An item dated exactly on both bounds is kept.
C12_Witness ==
    /\ lpc = "next"
    /\ itemFilter = [since |-> Some(2), until |-> Some(2)]
    /\ parsedItem.pubDate = Some("T2")
    /\ Len(pushed) = 1 /\ pushed[1].pubDate = Some(2)

\* The timestamps the four date fields of an entry read as, in the order
\* pubDate, published, updated, date_published; Null where a field is
\* absent, empty or unreadable.
fieldTimes(item) ==
    LET read(f) == IF f = Null THEN Null ELSE DateGetTime(f[1])
    IN <<read(item.pubDate), read(item.published), read(item.updated),
         read(item.date_published)>>

firstReadable(times) ==
    IF \A k \in DOMAIN times : times[k] = Null THEN Null
    ELSE times[CHOOSE k \in DOMAIN times :
                  times[k] # Null /\ \A j \in 1..(k - 1) : times[j] = Null]

RECURSIVE concatFulfilled(_)
concatFulfilled(order) ==
    IF order = <<>> THEN <<>>
    ELSE (IF tpc[Head(order)] = "fulfilled" THEN items[Head(order)] ELSE <<>>)
             \o concatFulfilled(Tail(order))

\* C13 (as stated): fetchAllFeeds returns the successful sources' items
\* concatenated in the order in which their fetches completed.
C13_CompletionOrder ==
    fpc = "done" => allItems = concatFulfilled(completion)

\* C13 (amended): fetchAllFeeds returns the successful sources' items
\* concatenated in the order of the feeds it was given, whatever the order
\* in which the fetches completed.
C13_SubmissionOrder ==
    fpc = "done" => allItems = concatFulfilled([i \in Tasks |-> i])

\* The second feed completed first, both delivered items, and the first
\* feed's items still come first.
C13_Witness ==
    /\ fpc = "done" /\ N = 2 /\ completion = <<2, 1>>
    /\ tpc[1] = "fulfilled" /\ tpc[2] = "fulfilled"
    /\ items[1] # <<>> /\ items[2] # <<>>
    /\ allItems = items[1] \o items[2]

\* C14: every fetch is bounded by its own timeout over the whole retrieval,
\* whatever the remote does, so every source eventually settles and
\* fetchAllFeeds eventually returns.
C14_FetchAllEventuallyReturns == <>(fpc = "done")

\* C15: summarizeAllCategories handles the categories one at a time in key
\* order: everything done for one category (progress call, attempts, sleeps,
\* push) comes before anything done for a later one, an attempt is resolved
\* before anything else happens, and the progress labels and the returned
\* summaries follow the key order.
C15_OneCategoryAtATimeInKeyOrder ==
    /\ \A a, b \in DOMAIN trace :
          a < b =>
             /\ GroupIndex(trace[a].category) >= 1
             /\ GroupIndex(trace[a].category) <= GroupIndex(trace[b].category)
             /\ trace[a].ev = "push" =>
                   GroupIndex(trace[a].category) < GroupIndex(trace[b].category)
             /\ trace[a].ev = "progress" /\ trace[b].ev = "progress" =>
                   GroupIndex(trace[a].category) < GroupIndex(trace[b].category)
    /\ \A a \in DOMAIN trace :
          /\ trace[a].ev = "call" /\ a < Len(trace) => trace[a + 1].ev \in {"ok", "fail"}
          /\ trace[a].ev = "call" /\ a = Len(trace) => spc = "awaitCreate"
          /\ trace[a].ev = "sleep" /\ a < Len(trace) =>
                trace[a + 1].ev = "call" /\ trace[a + 1].category = trace[a].category
    /\ \A a, b \in DOMAIN summaries :
          a < b => GroupIndex(summaries[a].category) < GroupIndex(summaries[b].category)

\* Two categories, the first retried after a sleep, the second summarized
\* afterwards; both progress calls and both summaries in key order.
C15_Witness ==
    /\ spc = "done" /\ Len(groups) = 2 /\ Len(summaries) = 2
    /\ EventsOf("sleep", groups[1].category) # {}
    /\ EventsOf("call", groups[2].category) # {}
    /\ EventsOf("progress", groups[1].category) # {}
    /\ EventsOf("progress", groups[2].category) # {}
    /\ summaries[1].category = groups[1].category
    /\ summaries[2].category = groups[2].category

\* The record pushed for a category (its label is a key, so there is one).
SummaryOf(category) == summaries[CHOOSE k \in DOMAIN summaries : summaries[k].category = category]

\* C16 (as stated): a successful response without overview gets the
\* placeholder used on exhaustion, one without highlights gets the empty
\* sequence, and a field that is present is kept as returned.
C16_MissingOverviewGetsExhaustionText ==
    \A p \in DOMAIN trace :
        trace[p].ev = "ok" =>
            LET r == trace[p].response
                s == SummaryOf(trace[p].category)
            IN /\ r.overview = Null => s.overview = "Summary could not be generated."
               /\ r.overview # Null => s.overview = r.overview[1]
               /\ r.highlights = Null => s.highlights = <<>>
               /\ r.highlights # Null => s.highlights = r.highlights[1]

\* C16 (amended): a successful response whose overview is missing or empty
\* gets "No overview available.", a text of its own; one without highlights
\* gets the empty sequence; each field degrades on its own and a non-empty
\* overview and a present highlights list are kept as returned.
C16_MissingOverviewGetsOwnText ==
    \A p \in DOMAIN trace :
        trace[p].ev = "ok" =>
            LET r == trace[p].response
                s == SummaryOf(trace[p].category)
            IN /\ r.overview \in {Null, Some("")} => s.overview = "No overview available."
               /\ r.overview \notin {Null, Some("")} => s.overview = r.overview[1]
               /\ r.highlights = Null => s.highlights = <<>>
               /\ r.highlights # Null => s.highlights = r.highlights[1]
               /\ s.overview # "Summary could not be generated."

\* A response with highlights but no overview, and one with an overview but
\* no highlights.
C16_Witness ==
    /\ spc = "done"
    /\ \E p \in DOMAIN trace :
          /\ trace[p].ev = "ok"
          /\ trace[p].response.overview = Null
          /\ trace[p].response.highlights = Some(<<"h1", "h2">>)
          /\ SummaryOf(trace[p].category).overview = "No overview available."
          /\ SummaryOf(trace[p].category).highlights = <<"h1", "h2">>
    /\ \E p \in DOMAIN trace :
          /\ trace[p].ev = "ok"
          /\ trace[p].response.overview = Some("ov")
          /\ trace[p].response.highlights = Null
          /\ SummaryOf(trace[p].category).overview = "ov"
          /\ SummaryOf(trace[p].category).highlights = <<>>

\* C17: the external call of a category is given its first 50 items at most,
\* in group order, while the record pushed for the category carries the
\* whole item list in the same order, on success and on exhaustion alike.
C17_PromptCappedSummaryFull ==
    /\ spc \in {"awaitCreate", "sleeping"} =>
          /\ prompt.category = Current.category
          /\ Len(prompt.articles) = (IF Len(Current.items) > 50 THEN 50
                                     ELSE Len(Current.items))
          /\ \A k \in DOMAIN prompt.articles :
                /\ prompt.articles[k].n = k
                /\ prompt.articles[k].title = Current.items[k].title
    /\ \A k \in DOMAIN summaries :
          /\ GroupIndex(summaries[k].category) >= 1
          /\ summaries[k].items = groups[GroupIndex(summaries[k].category)].items

\* Two categories of 51 items, the first exhausted, the second summarized:
\* each call saw 50 articles, each record carries 51 items.
C17_Witness ==
    /\ spc = "done" /\ Len(groups) = 2 /\ Len(summaries) = 2
    /\ Len(groups[1].items) = 51 /\ Len(groups[2].items) = 51
    /\ Exhausted(groups[1].category)
    /\ EventsOf("ok", groups[2].category) # {}
    /\ Len(summaries[1].items) = 51 /\ Len(summaries[2].items) = 51
    /\ Len(prompt.articles) = 50

\* What a run of summarizeAllCategories may have spent so far: at most 3
\* calls a category, 3 a category in all, and at most 2 sleeps a category.
WithinRetryBudget ==
    /\ Cardinality({ p \in DOMAIN trace : trace[p].ev = "call" }) <= 3 * Len(groups)
    /\ \A k \in DOMAIN groups :
          /\ Cardinality(EventsOf("call", groups[k].category)) <= 3
          /\ Cardinality(EventsOf("sleep", groups[k].category)) <= 2

\* C19: summarizeAllCategories always comes to an end, whatever attempts fail
\* or succeed, within 3 calls a category and 2 sleeps a category.
C19_TerminatesWithinBudget ==
    /\ []WithinRetryBudget
    /\ <>(spc \in {"done", "thrown"})

\* A finished run of two categories that spent the whole budget: 6 calls
\* and 2 sleeps for each.
C19_Witness ==
    /\ spc = "done" /\ Len(groups) = 2
    /\ Cardinality({ p \in DOMAIN trace : trace[p].ev = "call" }) = 6
    /\ \A k \in DOMAIN groups : Cardinality(EventsOf("sleep", groups[k].category)) = 2

\* C20: categorizeItems never holds a key without items, so when its result
\* is passed to summarizeAllCategories neither skipping branch of the loop
\* can be taken, the placeholder "No articles in this category." is never
\* pushed, and every category reaches the external call.
C20_NoEmptyGroupInPipeline ==
    /\ \A g \in DOMAIN categorized :
          categorized[g].items # <<>> /\ categorized[g].category # ""
    /\ ~ENABLED EmptyCategory
    /\ ~ENABLED SkipCategory
    /\ \A k \in DOMAIN summaries :
          summaries[k].overview # "No articles in this category."
    /\ spc = "done" =>
          /\ Len(summaries) = Len(categorized)
          /\ \A g \in DOMAIN categorized :
                EventsOf("call", categorized[g].category) # {}

\* Items with and without a label went through both stages: two groups,
\* each summarized by a call.
C20_Witness ==
    /\ spc = "done" /\ cpc = "done" /\ groups = categorized
    /\ Len(categorized) = 2 /\ Len(summaries) = 2
    /\ \E g \in DOMAIN categorized : categorized[g].category = "Uncategorized"
    /\ \A g \in DOMAIN categorized :
          EventsOf("call", categorized[g].category) # {}

\* C21: when the onProgress callback throws for one source, that source's
\* task is rejected and the items fetched for it are left out of the
\* result; fetchAllFeeds still returns, with the items of every other
\* source in it.  Nothing but a throwing callback rejects a task.
C21_ThrowingProgressDropsOnlyThatSource ==
    /\ \A i \in Tasks :
          tpc[i] = "rejected" =>
             /\ hasProgress /\ ~raised[i]
             /\ \E k \in DOMAIN progressLog : progressLog[k].completed = i
    /\ fpc = "running" /\ (\A i \in Tasks : tpc[i] \in {"fulfilled", "rejected"})
          => ENABLED FetchAllReturns
    /\ fpc = "done" =>
          \A x \in AnyItem :
             occurrences(x, allItems)
                 = fetchedOccurrences(x, { j \in Tasks : tpc[j] # "rejected" })

\* The callback threw for the first source after its items were fetched:
\* the call returned with the second source's items only.
C21_Witness ==
    /\ fpc = "done" /\ N = 2 /\ hasProgress
    /\ tpc[1] = "rejected" /\ outcome[1] = "ok" /\ items[1] # <<>>
    /\ tpc[2] = "fulfilled" /\ items[2] # <<>>
    /\ allItems = items[2]

====
